---- MODULE Spec2Model ----
(***************************************************************************)
(* trading-webhook: the POST /webhook and POST /test handlers, the relay   *)
(* dispatcher in its three revisions, the Notifier and the alert log       *)
(* writer, as a state machine over in-flight requests.                     *)
(*                                                                         *)
(* JavaScript runs a handler without interruption up to its next await of  *)
(* real I/O (an outbound fetch), so one action is one such run: the        *)
(* arrival of a request, or the answer of a collaborator to one request.   *)
(***************************************************************************)
EXTENDS Integers, Sequences, FiniteSets, TLC

\* ------------------------------------------------------------------ bounds
NReq == 2          \* requests in flight
MaxClock == 1      \* millisecond readings of the clock: 0 .. MaxClock
MaxSecretLen == 2  \* characters of a bot token or chat id

Reqs == 1 .. NReq

\* ------------------------------------------------- JavaScript values, text
\* A text is a sequence of tokens whose concatenation is the string.  Tickers
\* are tokenised by character, so endsWith / replace below see every
\* character; template literals are one token per literal piece.
Undef == [t |-> "undefined", s |-> <<>>]
Null == [t |-> "null", s |-> <<>>]
Str(s) == [t |-> "string", s |-> s]
Num(s) == [t |-> "number", s |-> s]

\* ToBoolean: undefined, null, "" and 0 are falsy
Truthy(v) ==
  \/ v.t = "string" /\ v.s # <<>>
  \/ v.t = "number" /\ v.s # <<"0">>
  \/ v.t = "boolean" /\ v.s = <<"true">>

\* a || b
OrElse(a, b) == IF Truthy(a) THEN a ELSE b

\* `${v}` inside a template literal
Tpl(v) == IF v.t = "undefined" THEN <<"undefined">>
          ELSE IF v.t = "null" THEN <<"null">> ELSE v.s

USDT == <<"U", "S", "D", "T">>

\* String.prototype.endsWith
endsWith(s, suffix) ==
  /\ Len(s) >= Len(suffix)
  /\ SubSeq(s, Len(s) - Len(suffix) + 1, Len(s)) = suffix

\* index (from 1) of the first occurrence of pat in s, 0 when there is none
firstIndexOf(s, pat) ==
  LET hits == {i \in 1 .. (Len(s) + 1) : i + Len(pat) - 1 <= Len(s)
                                       /\ SubSeq(s, i, i + Len(pat) - 1) = pat}
  IN IF hits = {} THEN 0 ELSE CHOOSE i \in hits : \A j \in hits : i <= j

\* String.prototype.replace(pat, '') with a string pattern: first occurrence
replaceFirst(s, pat) ==
  LET i == firstIndexOf(s, pat)
  IN IF i = 0 THEN s
     ELSE SubSeq(s, 1, i - 1) \o SubSeq(s, i + Len(pat), Len(s))

\* String.prototype.substring(0, n), counted in tokens
substring(s, n) == SubSeq(s, 1, IF Len(s) < n THEN Len(s) ELSE n)

\* ------------------------------------------------------------------ clock
\* new Date().toISOString() at millisecond reading c (all within one second)
toISOString(c) ==
  <<"1970-01-01T00", ":", "00", ":", "00", ".">>
    \o (IF c < 10 THEN <<"0", "0">> ELSE IF c < 100 THEN <<"0">> ELSE <<>>)
    \o <<ToString(c), "Z">>

\* .replace(/[:.]/g, '-')
sanitize(s) == [i \in 1 .. Len(s) |-> IF s[i] \in {":", "."} THEN "-" ELSE s[i]]

\* ------------------------------------------------------------------ alerts
\* An alert is whatever req.body (or JSON.parse of it) is: an object with
\* optional fields, or null, or a primitive.
Fields == {"message", "prompt", "ticker", "time", "alert", "condition",
           "price", "action", "receivedAt"}
NoFields == [k \in Fields |-> Undef]
Obj(f) == [t |-> "object", f |-> f, prim |-> <<>>]
Prim(t, s) == [t |-> t, f |-> NoFields, prim |-> s]
NullAlert == Prim("null", <<>>)
With(a, k, v) == [a EXCEPT !.f[k] = v]

\* alertData.<k>: a property read of a primitive is undefined
Get(a, k) == IF a.t = "object" THEN a.f[k] ELSE Undef

\* ---------------------------------------------------------------- JSON.parse
\* A JSON text is a sequence of lexemes.  String lexemes are looked up in a
\* table; numbers are single lexemes.
StrLexemes == {"\"ETH\"", "\"hi\""}
unquote(lx) == IF lx = "\"ETH\"" THEN <<"E", "T", "H">> ELSE <<"hi">>
KeyLexemes == {"\"ticker\"", "\"message\""}
keyOf(lx) == IF lx = "\"ticker\"" THEN "ticker" ELSE "message"
NumLexemes == {"5", "42"}

isScalarLexeme(lx) == lx \in StrLexemes \cup NumLexemes \cup {"null", "true", "false"}
scalarValue(lx) == IF lx \in StrLexemes THEN Str(unquote(lx))
                   ELSE IF lx \in NumLexemes THEN Num(<<lx>>)
                   ELSE IF lx = "null" THEN Null
                   ELSE [t |-> "boolean", s |-> <<lx>>]

\* { "key" : scalar }
isObjectText(raw) ==
  /\ Len(raw) = 5
  /\ raw[1] = "{" /\ raw[2] \in KeyLexemes /\ raw[3] = ":"
  /\ isScalarLexeme(raw[4]) /\ raw[5] = "}"

\* JSON.parse(raw): [ok |-> FALSE] is the SyntaxError
JSONparse(raw) ==
  IF raw = <<"{", "}">> THEN [ok |-> TRUE, value |-> Obj(NoFields)]
  ELSE IF isObjectText(raw)
    THEN [ok |-> TRUE, value |-> With(Obj(NoFields), keyOf(raw[2]), scalarValue(raw[4]))]
  ELSE IF Len(raw) = 1 /\ isScalarLexeme(raw[1])
    THEN [ok |-> TRUE,
          value |-> IF raw[1] = "null" THEN NullAlert
                    ELSE Prim(scalarValue(raw[1]).t, scalarValue(raw[1]).s)]
  ELSE [ok |-> FALSE, value |-> NullAlert]

\* ------------------------------------------------------------ request bodies
\* req.body after express.json() / express.text(): an object, or a string
ObjBody(a) == [kind |-> "object", obj |-> a, raw |-> <<>>]
TextBody(raw) == [kind |-> "string", obj |-> NullAlert, raw |-> raw]
NoBody == [kind |-> "none", obj |-> NullAlert, raw |-> <<>>]

SOLUSDT == <<"S", "O", "L">> \o USDT

ObjectAlerts ==
  { Obj(NoFields),
    With(Obj(NoFields), "ticker", Str(SOLUSDT)),
    With(Obj(NoFields), "message", Str(<<"check SOL">>)),
    With(Obj(NoFields), "message", Num(<<"42">>)),
    With(Obj(NoFields), "ticker", Num(<<"42">>)),
    With(With(Obj(NoFields), "prompt", Str(<<"p">>)), "ticker", Str(SOLUSDT)) }

RawTexts ==
  { <<"buy SOL now">>, <<>>, <<"{", "\"ticker\"", ":">>,
    <<"null">>, <<"5">>, <<"{", "\"ticker\"", ":", "\"ETH\"", "}">> }

Bodies == {ObjBody(a) : a \in ObjectAlerts} \cup {TextBody(raw) : raw \in RawTexts}

\* the bodies posted concurrently in SpecConc
ConcBodies ==
  { ObjBody(With(Obj(NoFields), "ticker", Str(SOLUSDT))),
    ObjBody(With(Obj(NoFields), "message", Num(<<"42">>))),
    TextBody(<<"buy SOL now">>),
    TextBody(<<"null">>) }

\* POST /test reads req.body.ticker and req.body.price
TestBodies == {ObjBody(Obj(NoFields)),
               ObjBody(With(Obj(NoFields), "ticker", Str(SOLUSDT)))}

\* ------------------------------------------------------------ configuration
Revisions == {"channel", "marker", "http"}

Configs ==
  [TELEGRAM_BOT_TOKEN : {"", "token"}, TELEGRAM_CHAT_ID : {"", "chat"},
   TRIGGER_CHANNEL_ID : {"", "-100"}, LOCAL_BOT_TRIGGER_URL : {"", "url"}]

ConcConfigs ==
  {c \in Configs : /\ c.TRIGGER_CHANNEL_ID = "" /\ c.LOCAL_BOT_TRIGGER_URL = ""
                   /\ (c.TELEGRAM_BOT_TOKEN = "") = (c.TELEGRAM_CHAT_ID = "")}

\* -------------------------------------------------------------------- state
VARIABLES
  config,    \* the settings read from the environment at start-up
  revision,  \* which revision of the relay dispatcher is deployed
  clock,     \* the millisecond reading new Date() gives
  crashed,   \* the process was terminated by an unhandled rejection
  files,     \* the log directory: set of [path, writer, logData]
  req,       \* per request: position, alert, response, effects, results
  health,    \* GET / probes of two deployments: their secrets and responses
  fmt        \* a formatAnalysisMessage call: its arguments and its result

vars == <<config, revision, clock, crashed, files, req, health, fmt>>

NoSend == [fn |-> "", kind |-> "", dest |-> "", text |-> <<>>]
NoResult == [state |-> "none", relayed |-> FALSE, method |-> "", error |-> "",
             prompt |-> Undef, ticker |-> Undef, command |-> <<>>]
NoResponse == [sent |-> FALSE, received |-> FALSE, timestamp |-> Undef,
               telegram_sent |-> FALSE]

IdleReq ==
  [pc |-> "idle", route |-> "", body |-> NoBody, alertData |-> NullAlert,
   response |-> NoResponse, effects |-> <<>>, prompt |-> Undef, ticker |-> Undef,
   cur |-> NoSend, sends |-> <<>>, outbox |-> <<>>, triggerOutcome |-> "",
   msg |-> <<>>, time |-> Undef, relay |-> NoResult, caught |-> "", logPath |-> <<>>,
   logged |-> FALSE]

\* chat API answers to one sendMessage call; trigger endpoint answers to one POST
ChatOutcomes == {"fetch_rejects", "body_not_json", "json_null", "ok_true",
                 "ok_false", "ok_missing"}
TriggerOutcomes == {"fetch_rejects", "non_2xx", "ok_json", "ok_not_json"}
\* the chat API's answers in SpecConc: a success and a failure
ConcOutcomes == {"ok_true", "fetch_rejects"}

\* ------------------------------------------------------------------ Notifier
\* telegram.js sendToChat: the early return without a network call
sendToChat_tokenOnly(chatId) == config.TELEGRAM_BOT_TOKEN = ""
sendToChat_unconfigured(chatId) == config.TELEGRAM_BOT_TOKEN = "" \/ chatId = ""

\* telegram.js sendToChat: the value returned once the fetch has settled.
\* A rejected fetch, an unparsable body and data === null (data.ok throws)
\* all land in the catch block.
sendToChat_result_anyResponse(outcome) == outcome # "fetch_rejects"
sendToChat_result(outcome) == outcome = "ok_true"

\* telegram.js sendToTriggerChannel: the early return
sendToTriggerChannel_unconfigured == config.TRIGGER_CHANNEL_ID = ""

\* the destination each wrapper passes to sendToChat
destOf(fn) == IF fn = "sendToTriggerChannel" THEN config.TRIGGER_CHANNEL_ID
              ELSE config.TELEGRAM_CHAT_ID

\* the wrapper returns false at once, with no fetch
returnsAtOnce(fn) ==
  \/ fn = "sendToTriggerChannel" /\ sendToTriggerChannel_unconfigured
  \/ sendToChat_unconfigured(destOf(fn))

\* the fetch of sendToChat is issued; the handler waits for the chat API
issueSend(rq, fn, kind, text) ==
  [rq EXCEPT !.pc = "await_chat",
             !.cur = [fn |-> fn, kind |-> kind, dest |-> destOf(fn), text |-> text],
             !.effects = Append(@, "chat_post"),
             !.outbox = Append(@, [chat_id |-> destOf(fn), text |-> text])]

\* a Notifier call has returned `ret` to its caller after `calls` fetches
noteSend(rq, fn, calls, outcome, ret) ==
  [rq EXCEPT !.cur = NoSend,
             !.sends = Append(@, [fn |-> fn, dest |-> destOf(fn), calls |-> calls,
                                  outcome |-> outcome, ret |-> ret])]

\* -------------------------------------------------------------- Log Writer
\* server.js saveToLog: the file name
logFilename(alertData, now) ==
  sanitize(toISOString(now)) \o <<"_">>
    \o Tpl(OrElse(Get(alertData, "ticker"), Str(<<"UNKNOWN">>)))
    \o <<"_analysis.json">>

\* server.js saveToLog: the document written
logDocument(alertData, analysisResult, now) ==
  [timestamp |-> toISOString(now), alert |-> alertData, analysis |-> analysisResult]

\* the catch block of the /webhook handler: the error is logged and dropped
handlerCatch_rethrow(rq, err) == [rq EXCEPT !.pc = "escaped", !.caught = err]
handlerCatch(rq, err) == [rq EXCEPT !.pc = "done", !.caught = err]

\* /webhook handler after the relay returned `result`: saveToLog, inside the
\* try block.  fsOk = FALSE is writeFileSync throwing.
saveToLog(rq, result, fsOk) ==
  LET rq1 == [rq EXCEPT !.relay = result, !.effects = Append(@, "log_write")]
  IN IF fsOk
     THEN [rq1 EXCEPT !.pc = "done", !.logged = TRUE,
                      !.logPath = logFilename(rq.alertData, clock)]
     ELSE handlerCatch(rq1, "write_error")

\* the relay threw: the handler's catch block runs, saveToLog is skipped
relayThrew(rq) ==
  handlerCatch([rq EXCEPT !.relay = [NoResult EXCEPT !.state = "thrown"]], "TypeError")

\* fs.writeFileSync replaces a file of the same path
writeFile(fs, r, rq) ==
  {f \in fs : f.path # rq.logPath}
    \cup {[path |-> rq.logPath, writer |-> r,
           logData |-> logDocument(rq.alertData, rq.relay, clock)]}

\* --------------------------------------------------------- Relay Dispatcher
Returned(relayed, method, error, prompt, ticker, command) ==
  [state |-> "returned", relayed |-> relayed, method |-> method, error |-> error,
   prompt |-> prompt, ticker |-> ticker, command |-> command]

\* let prompt = alertData.message || alertData.prompt; if (!prompt) {...}
\* threw: ticker.endsWith is not a function when ticker is truthy, not a string
computePrompt(alertData) ==
  LET p0 == OrElse(Get(alertData, "message"), Get(alertData, "prompt"))
      tk == OrElse(Get(alertData, "ticker"), Str(<<"S", "O", "L">>))
      tk2 == IF endsWith(tk.s, USDT) THEN replaceFirst(tk.s, USDT) ELSE tk.s
  IN IF Truthy(p0) THEN [threw |-> FALSE, prompt |-> p0]
     ELSE IF tk.t # "string" THEN [threw |-> TRUE, prompt |-> p0]
     ELSE [threw |-> FALSE,
           prompt |-> Str(<<"Run setup-check skill for ">> \o tk2 \o <<" 30m">>)]

\* alertData.time || new Date().toISOString();  alertData.alert || '...'
timeOf(alertData) == OrElse(Get(alertData, "time"), Str(toISOString(clock)))
alertNameOf(alertData) == OrElse(Get(alertData, "alert"), Str(<<"TradingView Alert">>))

\* the marker message: WEBHOOK_PROMPT:<prompt> and a footer
markerMessage(prompt, alertData, time) ==
  <<"WEBHOOK_PROMPT:">> \o Tpl(prompt) \o <<"\n\n---\nAlert: ">>
    \o Tpl(alertNameOf(alertData)) \o <<"\nTime: ">> \o Tpl(time)

\* ---- revision "marker": server.js relayToTelegramBot
\* after `await telegram.sendTelegramMessage(triggerMessage)`: line 101 calls
\* prompt.substring, which throws when the prompt is not a string
relayToTelegramBot_afterSend(rq, sent, fsOk) ==
  IF rq.prompt.t # "string" THEN relayThrew(rq)
  ELSE IF sent
    THEN saveToLog(rq, Returned(TRUE, "telegram", "", rq.prompt, Undef, <<>>), fsOk)
    ELSE saveToLog(rq, Returned(FALSE, "", "Telegram send failed", Undef, Undef, <<>>), fsOk)

relayToTelegramBot(rq, fsOk) ==
  LET cp == computePrompt(rq.alertData)
      text == markerMessage(cp.prompt, rq.alertData, timeOf(rq.alertData))
      rq1 == [rq EXCEPT !.prompt = cp.prompt, !.msg = text,
                        !.time = timeOf(rq.alertData)]
  IN IF cp.threw THEN relayThrew(rq)
     ELSE IF returnsAtOnce("sendTelegramMessage")
       THEN relayToTelegramBot_afterSend(
              noteSend(rq1, "sendTelegramMessage", 0, "none", FALSE), FALSE, fsOk)
       ELSE issueSend(rq1, "sendTelegramMessage", "marker", text)

\* ---- revision "http": relayToClaudeBot
relayToClaudeBot_afterFallback(rq, sent, fsOk) ==
  IF rq.prompt.t # "string" THEN relayThrew(rq)
  ELSE IF sent
    THEN saveToLog(rq, Returned(TRUE, "telegram", "", rq.prompt, Undef, <<>>), fsOk)
    ELSE saveToLog(rq, Returned(FALSE, "", "Both HTTP trigger and Telegram failed",
                                Undef, Undef, <<>>), fsOk)

\* "Fallback: Send to Telegram with WEBHOOK_PROMPT marker"
relayToClaudeBot_fallback(rq, fsOk) ==
  LET text == markerMessage(rq.prompt, rq.alertData, rq.time)
      rq1 == [rq EXCEPT !.msg = text]
  IN IF returnsAtOnce("sendTelegramMessage")
       THEN relayToClaudeBot_afterFallback(
              noteSend(rq1, "sendTelegramMessage", 0, "none", FALSE), FALSE, fsOk)
       ELSE issueSend(rq1, "sendTelegramMessage", "fallback", text)

\* after the informational notice: its outcome is ignored
relayToClaudeBot_afterNotify_orFallback(rq, sent, fsOk) ==
  IF sent
  THEN saveToLog(rq, Returned(TRUE, "http_trigger", "", rq.prompt, Undef, <<>>), fsOk)
  ELSE relayToClaudeBot_fallback(rq, fsOk)
relayToClaudeBot_afterNotify(rq, sent, fsOk) ==
  saveToLog(rq, Returned(TRUE, "http_trigger", "", rq.prompt, Undef, <<>>), fsOk)

notifyMessage(prompt, alertData, time) ==
  <<"Webhook Received\n\nAlert: ">> \o Tpl(alertNameOf(alertData)) \o <<"\nTime: ">>
    \o Tpl(time) \o <<"\nPrompt: ">> \o substring(prompt.s, 100) \o <<"...">>

\* the trigger endpoint has answered.  Inside the try block: response.ok,
\* then `await response.json()` and prompt.substring(0, 100); whatever throws
\* there is caught and the code falls through to the fallback.
relayToClaudeBot_afterTrigger(rq, outcome, fsOk) ==
  LET rq1 == [rq EXCEPT !.triggerOutcome = outcome]
      text == notifyMessage(rq.prompt, rq.alertData, rq.time)
  IN IF outcome = "ok_json" /\ rq.prompt.t = "string"
     THEN IF returnsAtOnce("sendTelegramMessage")
          THEN relayToClaudeBot_afterNotify(
                 noteSend(rq1, "sendTelegramMessage", 0, "none", FALSE), FALSE, fsOk)
          ELSE issueSend([rq1 EXCEPT !.msg = text], "sendTelegramMessage", "notify", text)
     ELSE relayToClaudeBot_fallback(rq1, fsOk)

relayToClaudeBot(rq, fsOk) ==
  LET cp == computePrompt(rq.alertData)
      rq1 == [rq EXCEPT !.prompt = cp.prompt, !.time = timeOf(rq.alertData)]
  IN IF cp.threw THEN relayThrew(rq)
     ELSE IF config.LOCAL_BOT_TRIGGER_URL # ""
       THEN [rq1 EXCEPT !.pc = "await_trigger", !.effects = Append(@, "trigger_post")]
       ELSE relayToClaudeBot_fallback(rq1, fsOk)

\* ---- revision "channel": the first relayToTelegramBot of unnamed/part_001
ETH == <<"E", "T", "H">>

\* let ticker = alertData.ticker || 'ETH'; strip a USDT suffix
computeTicker(alertData) ==
  LET tk == OrElse(Get(alertData, "ticker"), Str(ETH))
  IN IF tk.t # "string" THEN [threw |-> TRUE, ticker |-> tk]
     ELSE [threw |-> FALSE,
           ticker |-> Str(IF endsWith(tk.s, USDT) THEN replaceFirst(tk.s, USDT) ELSE tk.s)]

analysisCommand(ticker) == <<"/analyze ">> \o Tpl(ticker)

autoTriggerMessage(ticker, alertData, time) ==
  <<"AUTO-TRIGGER FROM TRADINGVIEW\n\nAlert: ">> \o Tpl(alertNameOf(alertData))
    \o <<"\nTicker: ">> \o Tpl(ticker)
    \o <<"\nPrice: $">> \o Tpl(OrElse(Get(alertData, "price"), Str(<<"N/A">>)))
    \o <<"\nCondition: ">> \o Tpl(OrElse(Get(alertData, "condition"), Str(<<"ALERT">>)))
    \o <<"\nAction: ">> \o Tpl(OrElse(Get(alertData, "action"), Str(<<"NOTIFY">>)))
    \o <<"\nTime: ">> \o Tpl(time)
    \o <<"\n\nTriggering: ">> \o analysisCommand(ticker)

\* after `await telegram.sendTelegramMessage(triggerMessage)`
relayToTelegramBot_channel_afterChat(rq, commandSent, fsOk) ==
  IF commandSent
  THEN saveToLog(rq, Returned(TRUE, "", "", Undef, rq.ticker, analysisCommand(rq.ticker)), fsOk)
  ELSE saveToLog(rq, Returned(FALSE, "", "Telegram send failed", Undef, Undef, <<>>), fsOk)

\* after `await telegram.sendToTriggerChannel(triggerMessage)`
relayToTelegramBot_channel_afterChannel(rq, channelSent, fsOk) ==
  IF returnsAtOnce("sendTelegramMessage")
  THEN relayToTelegramBot_channel_afterChat(
         noteSend(rq, "sendTelegramMessage", 0, "none", FALSE), FALSE, fsOk)
  ELSE issueSend(rq, "sendTelegramMessage", "chat", rq.msg)

relayToTelegramBot_channel(rq, fsOk) ==
  LET ct == computeTicker(rq.alertData)
      text == autoTriggerMessage(ct.ticker, rq.alertData, timeOf(rq.alertData))
      rq1 == [rq EXCEPT !.ticker = ct.ticker, !.msg = text,
                        !.time = timeOf(rq.alertData)]
  IN IF ct.threw THEN relayThrew(rq)
     ELSE IF returnsAtOnce("sendToTriggerChannel")
       THEN relayToTelegramBot_channel_afterChannel(
              noteSend(rq1, "sendToTriggerChannel", 0, "none", FALSE), FALSE, fsOk)
       ELSE issueSend(rq1, "sendToTriggerChannel", "channel", text)

\* ------------------------------------------------- Notifier: message format
SetupFields == {"type", "entry", "stop", "tp1", "tp2", "riskReward", "winRate"}
IndicatorFields == {"jewelFast", "jewelSlow", "mgmMomentum", "adx"}
NA(v) == Tpl(OrElse(v, Str(<<"N/A">>)))

NoAnalysis ==
  [present |-> FALSE,
   setup |-> [present |-> FALSE, f |-> [k \in SetupFields |-> Undef]],
   indicators |-> [present |-> FALSE, f |-> [k \in IndicatorFields |-> Undef]],
   recommendation |-> Undef]

headerSection(alertData, now) ==
  <<"TRADING ALERT: ">> \o Tpl(OrElse(Get(alertData, "ticker"), Str(<<"UNKNOWN">>)))
    \o <<"\n\nCondition: ">> \o Tpl(OrElse(Get(alertData, "condition"), Str(<<"ALERT">>)))
    \o <<"\nPrice: $">> \o NA(Get(alertData, "price"))
    \o <<"\nTime: ">> \o toISOString(now) \o <<"\n\n">>

setupSection(setup) ==
  <<"SETUP FOUND\n\n", "Type: ">> \o NA(setup.f["type"])
    \o <<"\nEntry: $">> \o NA(setup.f["entry"])
    \o <<"\nStop: $">> \o NA(setup.f["stop"])
    \o <<"\nTP1: $">> \o NA(setup.f["tp1"])
    \o <<"\nTP2: $">> \o NA(setup.f["tp2"])
    \o <<"\nR:R: ">> \o NA(setup.f["riskReward"])
    \o <<"\nWin Rate: ">> \o NA(setup.f["winRate"]) \o <<"%\n">>

noSetupSection == <<"NO SETUP - Mixed signals\n">>

indicatorSection(ind) ==
  <<"\nIndicators:\n", "Jewel Fast: ">> \o NA(ind.f["jewelFast"])
    \o <<"\nJewel Slow: ">> \o NA(ind.f["jewelSlow"])
    \o <<"\nMGM Momentum: ">> \o NA(ind.f["mgmMomentum"])
    \o <<"\nADX: ">> \o NA(ind.f["adx"]) \o <<"\n">>

recommendationSection(rec) == <<"\nRecommendation:\n">> \o Tpl(rec) \o <<"\n">>

pendingSection == <<"Analysis pending...\n">>

formatAnalysisMessage_recommendationFirst(alertData, analysisResult, now) ==
  headerSection(alertData, now)
    \o (IF analysisResult.present
        THEN (IF analysisResult.setup.present THEN setupSection(analysisResult.setup)
              ELSE noSetupSection)
             \o (IF Truthy(analysisResult.recommendation)
                 THEN recommendationSection(analysisResult.recommendation) ELSE <<>>)
             \o (IF analysisResult.indicators.present
                 THEN indicatorSection(analysisResult.indicators) ELSE <<>>)
        ELSE pendingSection)

\* reading alertData.ticker of null or undefined throws a TypeError
formatThrows(alertData) == alertData.t \in {"null", "undefined"}

\* telegram.js formatAnalysisMessage
formatAnalysisMessage(alertData, analysisResult, now) ==
  headerSection(alertData, now)
    \o (IF analysisResult.present
        THEN (IF analysisResult.setup.present THEN setupSection(analysisResult.setup)
              ELSE noSetupSection)
             \o (IF analysisResult.indicators.present
                 THEN indicatorSection(analysisResult.indicators) ELSE <<>>)
             \o (IF Truthy(analysisResult.recommendation)
                 THEN recommendationSection(analysisResult.recommendation) ELSE <<>>)
        ELSE pendingSection)

\* ------------------------------------------------------------- POST /test
\* the canned analysis result of the test endpoint
testAnalysis ==
  [present |-> TRUE,
   setup |-> [present |-> TRUE,
              f |-> [k \in SetupFields |->
                       Str(<<CASE k = "type" -> "TEST SHORT" [] k = "entry" -> "3040"
                               [] k = "stop" -> "3072" [] k = "tp1" -> "3008"
                               [] k = "tp2" -> "2975" [] k = "riskReward" -> "1:1.91"
                               [] OTHER -> "57.1">>)]],
   indicators |-> [present |-> TRUE,
                   f |-> [k \in IndicatorFields |->
                            Str(<<CASE k = "jewelFast" -> "68.8" [] k = "jewelSlow" -> "75.2"
                                    [] k = "mgmMomentum" -> "-0.5" [] OTHER -> "26.7">>)]],
   recommendation |-> Str(<<"TEST: This is a test notification.">>)]

\* req.body as a value whose properties are read
bodyValue(body) == IF body.kind = "object" THEN body.obj ELSE Prim("string", body.raw)

testAlert(body, now) ==
  With(With(With(With(Obj(NoFields),
    "ticker", OrElse(Get(bodyValue(body), "ticker"), Str(ETH))),
    "condition", Str(<<"TEST_ALERT">>)),
    "price", OrElse(Get(bodyValue(body), "price"), Str(<<"3040">>))),
    "time", Str(toISOString(now)))

\* after `await telegram.sendAlertNotification(...)`: the response carries the outcome
test_afterSend(rq, sent) ==
  [rq EXCEPT !.pc = "done", !.effects = Append(@, "test_response"),
             !.response = [sent |-> TRUE, received |-> FALSE, timestamp |-> Undef,
                           telegram_sent |-> sent]]

testHandler(body) ==
  LET alert == testAlert(body, clock)
      text == formatAnalysisMessage(alert, testAnalysis, clock)
      rq1 == [IdleReq EXCEPT !.route = "test", !.body = body, !.alertData = alert,
                             !.msg = text]
  IN IF returnsAtOnce("sendAlertNotification")
     THEN test_afterSend(noteSend(rq1, "sendAlertNotification", 0, "none", FALSE), FALSE)
     ELSE issueSend(rq1, "sendAlertNotification", "test", text)

\* ----------------------------------------------------------- POST /webhook
\* typeof req.body === 'string' ? JSON.parse, on SyntaxError {message: body}
parseBody_noFallback(body) ==
  IF body.kind = "string" THEN JSONparse(body.raw).value ELSE body.obj
parseBody(body) ==
  IF body.kind = "string"
  THEN LET p == JSONparse(body.raw)
       IN IF p.ok THEN p.value ELSE With(Obj(NoFields), "message", Str(body.raw))
  ELSE body.obj

\* alertData.receivedAt = new Date().toISOString(): the script is not in
\* strict mode, so the assignment to a property of a primitive is dropped
\* (the TypeError on null is raised by the handler, below)
stampReceivedAt(alertData, now) ==
  IF alertData.t = "object" THEN With(alertData, "receivedAt", Str(toISOString(now)))
  ELSE alertData

\* res.json({ received: true, timestamp: alertData.receivedAt })
respond_afterRelay(rq) == rq
respond(rq) ==
  [rq EXCEPT !.effects = Append(@, "ack"),
             !.response = [sent |-> TRUE, received |-> TRUE,
                           timestamp |-> Get(rq.alertData, "receivedAt"),
                           telegram_sent |-> FALSE]]

\* the relay dispatcher of the deployed revision
relay(rq, fsOk) ==
  CASE revision = "marker" -> relayToTelegramBot(rq, fsOk)
    [] revision = "http" -> relayToClaudeBot(rq, fsOk)
    [] OTHER -> relayToTelegramBot_channel(rq, fsOk)

\* the handler from the arrival of the request to its first wait
webhookHandler(body, fsOk) ==
  LET parsed == parseBody(body)
      rq0 == [IdleReq EXCEPT !.route = "webhook", !.body = body]
      rq1 == [rq0 EXCEPT !.alertData = stampReceivedAt(parsed, clock)]
  IN IF parsed.t = "null"
     THEN [rq0 EXCEPT !.pc = "escaped", !.caught = "TypeError", !.alertData = parsed]
     ELSE relay(respond(rq1), fsOk)

\* the chat API has answered the pending sendMessage call: sendToChat
\* returns, and the code that awaited the Notifier call continues
chatAnswered(rq, outcome, fsOk) ==
  LET sent == sendToChat_result(outcome)
      rq1 == noteSend(rq, rq.cur.fn, 1, outcome, sent)
      kind == rq.cur.kind
  IN CASE kind = "marker" -> relayToTelegramBot_afterSend(rq1, sent, fsOk)
       [] kind = "fallback" -> relayToClaudeBot_afterFallback(rq1, sent, fsOk)
       [] kind = "notify" -> relayToClaudeBot_afterNotify(rq1, sent, fsOk)
       [] kind = "channel" -> relayToTelegramBot_channel_afterChannel(rq1, sent, fsOk)
       [] kind = "chat" -> relayToTelegramBot_channel_afterChat(rq1, sent, fsOk)
       [] OTHER -> test_afterSend(rq1, sent)

\* ------------------------------------------------------------------ GET /
\* The secrets of a deployment, as character sequences of length <= MaxSecretLen
SecretChars == {"a", "b"}
Secrets == UNION {[1 .. n -> SecretChars] : n \in 0 .. MaxSecretLen}
SecretConfigs == [TELEGRAM_BOT_TOKEN : Secrets, TELEGRAM_CHAT_ID : Secrets]

NoHealth == [status |-> "", service |-> "", timestamp |-> <<>>,
             telegram_configured |-> FALSE, token_length |-> 0, chat_id_length |-> 0]
NoProbes == [i \in 1 .. 2 |->
               [config |-> [TELEGRAM_BOT_TOKEN |-> <<>>, TELEGRAM_CHAT_ID |-> <<>>],
                response |-> NoHealth]]

\* server.js app.get('/'): the JSON document sent
healthResponse(cfg, now) ==
  [status |-> "ok", service |-> "trading-webhook", timestamp |-> toISOString(now),
   telegram_configured |-> cfg.TELEGRAM_BOT_TOKEN # <<>> /\ cfg.TELEGRAM_CHAT_ID # <<>>,
   token_length |-> IF cfg.TELEGRAM_BOT_TOKEN # <<>> THEN Len(cfg.TELEGRAM_BOT_TOKEN) ELSE 0,
   chat_id_length |-> IF cfg.TELEGRAM_CHAT_ID # <<>> THEN Len(cfg.TELEGRAM_CHAT_ID) ELSE 0]

\* ------------------------------------------------- formatAnalysisMessage call
NoFmt == [called |-> FALSE, threw |-> FALSE, alertData |-> NullAlert, analysisResult |-> NoAnalysis,
          message |-> <<>>]

\* ------------------------------------------------------------------ actions
Init ==
  /\ config \in Configs
  /\ revision \in Revisions
  /\ clock = 0
  /\ crashed = FALSE
  /\ files = {}
  /\ req = [r \in Reqs |-> IdleReq]
  /\ health = NoProbes
  /\ fmt = NoFmt

\* requests are numbered in their order of arrival
mayArrive(r) ==
  /\ ~crashed
  /\ req[r].pc = "idle"
  /\ IF r = 1 THEN TRUE ELSE req[r - 1].pc # "idle"

\* the run of request r has ended in state rq: the log file it wrote, and
\* the fate of the process when an error escaped the async handler (an
\* unhandled rejection ends the process or only warns, by Node version)
settle(r, rq, crash) ==
  /\ req' = [req EXCEPT ![r] = rq]
  /\ files' = IF rq.logged /\ ~req[r].logged THEN writeFile(files, r, rq) ELSE files
  /\ crashed' = IF rq.pc = "escaped" THEN crash ELSE crashed
  /\ UNCHANGED <<config, revision, clock, health, fmt>>

\* POST /webhook arrives with one of the bodies B
Arrive(r, B) ==
  /\ mayArrive(r)
  /\ \E body \in B, fsOk \in BOOLEAN, crash \in BOOLEAN :
       settle(r, webhookHandler(body, fsOk), crash)

Webhook(r) == Arrive(r, Bodies)
WebhookConc(r) == Arrive(r, ConcBodies)

\* POST /test arrives
Test(r) ==
  /\ mayArrive(r)
  /\ \E body \in TestBodies : settle(r, testHandler(body), FALSE)

\* the trigger endpoint answers the POST of request r
TriggerAnswer(r) ==
  /\ ~crashed
  /\ req[r].pc = "await_trigger"
  /\ \E outcome \in TriggerOutcomes, fsOk \in BOOLEAN, crash \in BOOLEAN :
       settle(r, relayToClaudeBot_afterTrigger(req[r], outcome, fsOk), crash)

\* the chat API answers the sendMessage call of request r, one of outcomes O
ChatAnswerOf(r, O) ==
  /\ ~crashed
  /\ req[r].pc = "await_chat"
  /\ \E outcome \in O, fsOk \in BOOLEAN, crash \in BOOLEAN :
       settle(r, chatAnswered(req[r], outcome, fsOk), crash)

ChatAnswer(r) == ChatAnswerOf(r, ChatOutcomes)
ChatAnswerConc(r) == ChatAnswerOf(r, ConcOutcomes)

\* a millisecond passes
Tick ==
  /\ clock < MaxClock
  /\ clock' = clock + 1
  /\ UNCHANGED <<config, revision, crashed, files, req, health, fmt>>

\* One request, of every body, against every configuration and revision.
Next ==
  \/ Webhook(1)
  \/ Test(1)
  \/ TriggerAnswer(1)
  \/ ChatAnswer(1)
  \/ Tick

Spec == Init /\ [][Next]_vars

\* NReq requests in flight against server.js, with and without credentials,
\* the chat API succeeding or failing.
InitConc ==
  /\ config \in ConcConfigs
  /\ revision = "marker"
  /\ clock = 0
  /\ crashed = FALSE
  /\ files = {}
  /\ req = [r \in Reqs |-> IdleReq]
  /\ health = NoProbes
  /\ fmt = NoFmt

NextConc ==
  \/ \E r \in Reqs : WebhookConc(r)
  \/ \E r \in Reqs : ChatAnswerConc(r)
  \/ Tick

SpecConc == InitConc /\ [][NextConc]_vars

\* Two deployments that differ only in their secrets, each probed with GET /.
InitHealth ==
  /\ config \in {c \in Configs : c = [TELEGRAM_BOT_TOKEN |-> "", TELEGRAM_CHAT_ID |-> "",
                                        TRIGGER_CHANNEL_ID |-> "",
                                        LOCAL_BOT_TRIGGER_URL |-> ""]}
  /\ revision = "marker"
  /\ clock = 0
  /\ crashed = FALSE
  /\ files = {}
  /\ req = [r \in Reqs |-> IdleReq]
  /\ health \in [1 .. 2 -> [config : SecretConfigs, response : {NoHealth}]]
  /\ fmt = NoFmt

\* GET / of deployment i
GetRoot(i) ==
  /\ health' = [health EXCEPT ![i].response = healthResponse(health[i].config, clock)]
  /\ UNCHANGED <<config, revision, clock, crashed, files, req, fmt>>

NextHealth ==
  \/ \E i \in 1 .. 2 : GetRoot(i)
  \/ Tick

SpecHealth == InitHealth /\ [][NextHealth]_vars

\* formatAnalysisMessage applied to alerts and analysis results with any
\* combination of sections and of fields missing.
FieldValues == {Undef, Str(<<"1">>)}
Setups ==
  {NoAnalysis.setup}
    \cup [present : {TRUE}, f : [SetupFields -> FieldValues]]
    \cup {[present |-> TRUE, f |-> [k \in SetupFields |-> Num(<<"0">>)]]}
Indicators ==
  {NoAnalysis.indicators}
    \cup [present : {TRUE}, f : [IndicatorFields -> FieldValues]]
    \cup {[present |-> TRUE, f |-> [k \in IndicatorFields |-> Num(<<"0">>)]]}
Recommendations == {Undef, Str(<<>>), Str(<<"Wait for confirmation">>)}
Analyses ==
  {NoAnalysis}
    \cup [present : {TRUE}, setup : Setups, indicators : Indicators,
          recommendation : Recommendations]
FormatAlerts ==
  {NullAlert, Obj(NoFields),
   With(With(With(Obj(NoFields), "ticker", Str(ETH)),
             "condition", Str(<<"CROSS">>)), "price", Num(<<"3040">>))}

InitFormat ==
  /\ config \in {c \in Configs : c = [TELEGRAM_BOT_TOKEN |-> "", TELEGRAM_CHAT_ID |-> "",
                                        TRIGGER_CHANNEL_ID |-> "",
                                        LOCAL_BOT_TRIGGER_URL |-> ""]}
  /\ revision = "marker"
  /\ clock = 0
  /\ crashed = FALSE
  /\ files = {}
  /\ req = [r \in Reqs |-> IdleReq]
  /\ health = NoProbes
  /\ fmt \in [called : {FALSE}, threw : {FALSE}, alertData : FormatAlerts,
               analysisResult : Analyses, message : {<<>>}]

\* formatAnalysisMessage(alertData, analysisResult) is called
Format ==
  /\ ~fmt.called
  /\ fmt' = [fmt EXCEPT !.called = TRUE,
                        !.threw = formatThrows(fmt.alertData),
                        !.message = IF formatThrows(fmt.alertData) THEN <<>>
                                    ELSE formatAnalysisMessage(fmt.alertData,
                                                               fmt.analysisResult, clock)]
  /\ UNCHANGED <<config, revision, clock, crashed, files, req, health>>

NextFormat ==
  \/ Format
  \/ Tick

SpecFormat == InitFormat /\ [][NextFormat]_vars

TypeOK ==
  /\ config \in Configs /\ revision \in Revisions /\ clock \in 0 .. MaxClock
  /\ crashed \in BOOLEAN
  /\ \A r \in Reqs : req[r].pc \in {"idle", "await_trigger", "await_chat", "done", "escaped"}

\* =================================================================== claims
Webhooks == {r \in Reqs : req[r].route = "webhook"}
Waiting(r) == req[r].pc \in {"await_trigger", "await_chat"}
Count(seq, x) == Cardinality({i \in 1 .. Len(seq) : seq[i] = x})
isMarkerText(text) == text # <<>> /\ Head(text) = "WEBHOOK_PROMPT:"
MarkerPosts(r) == {i \in 1 .. Len(req[r].outbox) : isMarkerText(req[r].outbox[i].text)}
FilesOf(r) == {f \in files : f.writer = r}

C2_ExactlyOneLog ==
  \A r \in Webhooks :
    req[r].pc = "done" /\ req[r].caught # "write_error" =>
      req[r].logged /\ Count(req[r].effects, "log_write") = 1

\* C3: with a trigger URL configured and the POST answered 2xx, whatever the
\* body, the relay returns relayed: true, method "http_trigger", and posts no
\* marker message.
C3_2xxIsHttpTrigger ==
  \A r \in Webhooks :
    /\ revision = "http" /\ config.LOCAL_BOT_TRIGGER_URL # ""
    /\ req[r].triggerOutcome \in {"ok_json", "ok_not_json"}
    => /\ MarkerPosts(r) = {}
       /\ req[r].pc = "done" =>
            /\ req[r].relay.state = "returned" /\ req[r].relay.relayed
            /\ req[r].relay.method = "http_trigger"

\* C4: with the trigger URL unset, or the POST rejected or answered non-2xx,
\* the relay sends the marker message to the primary chat; it returns
\* relayed: true, method "message_fallback" when that send succeeds and
\* relayed: false with the error naming both strategies when it fails.
C4_FallbackReported ==
  \A r \in Webhooks :
    /\ revision = "http" /\ req[r].pc = "done"
    /\ \/ config.LOCAL_BOT_TRIGGER_URL = ""
       \/ req[r].triggerOutcome \in {"fetch_rejects", "non_2xx"}
    => LET last == req[r].sends[Len(req[r].sends)]
       IN /\ req[r].sends # <<>> /\ isMarkerText(req[r].msg)
          /\ req[r].relay.state = "returned"
          /\ last.ret => req[r].relay.relayed /\ req[r].relay.method = "message_fallback"
          /\ ~last.ret => /\ ~req[r].relay.relayed
                          /\ req[r].relay.error = "Both HTTP trigger and Telegram failed"

\* C5: the relay never throws: once the handling of a /webhook request has
\* ended, the relay has returned a RelayResult.
C5_RelayReturns ==
  \A r \in Webhooks : req[r].pc = "done" => req[r].relay.state = "returned"

\* C6: with the bot token or the destination id of the call unconfigured, a
\* Notifier send returns false and no sendMessage call reaches the chat API.
C6_UnconfiguredNoCall ==
  \A r \in Reqs :
    /\ \A i \in 1 .. Len(req[r].sends) :
         LET s == req[r].sends[i]
         IN config.TELEGRAM_BOT_TOKEN = "" \/ s.dest = "" => ~s.ret /\ s.calls = 0
    /\ \A i \in 1 .. Len(req[r].outbox) :
         config.TELEGRAM_BOT_TOKEN # "" /\ req[r].outbox[i].chat_id # ""
    /\ req[r].pc = "await_chat" => config.TELEGRAM_BOT_TOKEN # "" /\ req[r].cur.dest # ""

C6_Witness ==
  \E r \in Reqs :
    /\ config.TELEGRAM_BOT_TOKEN # "" /\ config.TRIGGER_CHANNEL_ID = ""
    /\ config.TELEGRAM_CHAT_ID = ""
    /\ Len(req[r].sends) = 2 /\ req[r].outbox = <<>>
    /\ req[r].sends[1].fn = "sendToTriggerChannel" /\ ~req[r].sends[1].ret
    /\ req[r].sends[2].fn = "sendTelegramMessage" /\ ~req[r].sends[2].ret

\* C7: a Notifier send returns true only after exactly one sendMessage call
\* whose parsed answer had ok: true; it returns false when the call is
\* rejected, the body cannot be parsed or ok is false; and every send issues
\* at most one call (no second attempt).
C7_SendOnceTrueOnlyOnOk ==
  \A r \in Reqs :
    /\ \A i \in 1 .. Len(req[r].sends) :
         LET s == req[r].sends[i]
         IN /\ s.ret => s.calls = 1 /\ s.outcome = "ok_true"
            /\ s.outcome \in {"fetch_rejects", "body_not_json", "ok_false"} => ~s.ret
            /\ s.calls <= 1
    /\ Len(req[r].outbox) =
         Cardinality({i \in 1 .. Len(req[r].sends) : req[r].sends[i].calls = 1})
           + (IF req[r].pc = "await_chat" THEN 1 ELSE 0)
    /\ req[r].pc = "escaped" => req[r].sends = <<>> /\ req[r].outbox = <<>>

C7_Witness ==
  \E r \in Reqs :
    /\ Len(req[r].sends) = 2 /\ Len(req[r].outbox) = 2
    /\ req[r].sends[1].outcome = "body_not_json" /\ ~req[r].sends[1].ret
    /\ req[r].sends[2].outcome = "ok_true" /\ req[r].sends[2].ret

\* C8: a string body that is not valid JSON is handled as the alert
\* {message: <raw string>} plus receivedAt, is acknowledged with
\* timestamp = receivedAt, and no exception leaves the handler.
NonJsonTexts == {<<"buy SOL now">>, <<>>, <<"{", "\"ticker\"", ":">>}

C8_NonJsonWrapped ==
  \A r \in Webhooks :
    req[r].body.kind = "string" /\ req[r].body.raw \in NonJsonTexts =>
      LET a == req[r].alertData
      IN /\ a.t = "object"
         /\ a.f["receivedAt"].t = "string"
         /\ a = With(With(Obj(NoFields), "message", Str(req[r].body.raw)),
                     "receivedAt", a.f["receivedAt"])
         /\ req[r].response.sent /\ req[r].response.received
         /\ req[r].response.timestamp = a.f["receivedAt"]
         /\ req[r].pc # "escaped"
         /\ \A f \in FilesOf(r) : f.logData.alert = a

C8_Witness ==
  \E r \in Webhooks :
    /\ req[r].body = TextBody(<<"buy SOL now">>) /\ req[r].logged
    /\ req[r].relay.relayed /\ FilesOf(r) # {}

\* C9: no failure of a request's background work (a failed relay, an
\* exception raised while relaying, a failed log write) leaves the handler:
\* an error escapes only from before the response was sent; and while the
\* process runs, every other request can still arrive and every waiting
\* request can still take its collaborator's answer, whatever the others do.
C9_BackgroundFailuresContained ==
  /\ \A r \in Reqs : req[r].pc = "escaped" => ~req[r].response.sent
  /\ crashed => \E r \in Reqs : req[r].pc = "escaped" /\ ~req[r].response.sent
  /\ ~crashed =>
       \A r \in Reqs :
         /\ req[r].pc = "await_chat" => ENABLED ChatAnswerConc(r)
         /\ (req[r].pc = "idle" /\ \A q \in Reqs : q < r => req[q].pc # "idle")
              => ENABLED WebhookConc(r)

\* the relay of one request threw (caught by the handler), and a later
\* request was relayed and logged
C9_Witness ==
  \E r1, r2 \in Webhooks :
    /\ r1 < r2
    /\ req[r1].pc = "done" /\ req[r1].caught = "TypeError"
    /\ req[r2].logged /\ req[r2].relay.relayed /\ FilesOf(r2) # {}

\* C10: two alerts with the same ticker whose log writes happen within the
\* same second are persisted to two distinct files, neither overwritten.
C10_DistinctLogFiles ==
  \A r1, r2 \in Webhooks :
    /\ r1 # r2 /\ req[r1].logged /\ req[r2].logged
    /\ Get(req[r1].alertData, "ticker") = Get(req[r2].alertData, "ticker")
    => /\ req[r1].logPath # req[r2].logPath
       /\ FilesOf(r1) # {} /\ FilesOf(r2) # {}

\* C11: GET / reveals the credentials only as one configured/unconfigured
\* boolean: two deployments that both have a non-empty token and a non-empty
\* chat id answer identically apart from the timestamp.
C11_OnlyBooleanRevealed ==
  LET a == health[1]
      b == health[2]
      configured(c) == c.TELEGRAM_BOT_TOKEN # <<>> /\ c.TELEGRAM_CHAT_ID # <<>>
  IN /\ a.response.status = "ok" /\ b.response.status = "ok"
     /\ configured(a.config) /\ configured(b.config)
     => [a.response EXCEPT !.timestamp = <<>>] = [b.response EXCEPT !.timestamp = <<>>]

\* sendMessage calls issued for request r by Notifier function fn
IssuedBy(r, fn) ==
  Cardinality({i \in 1 .. Len(req[r].sends) :
                 req[r].sends[i].fn = fn /\ req[r].sends[i].calls = 1})
    + (IF req[r].pc = "await_chat" /\ req[r].cur.fn = fn THEN 1 ELSE 0)

HeaderMark == "TRADING ALERT: "
SetupMark == Head(setupSection(NoAnalysis.setup))
NoSetupMark == Head(noSetupSection)
IndicatorMark == Head(indicatorSection(NoAnalysis.indicators))
RecommendationMark == Head(recommendationSection(Undef))
PendingMark == Head(pendingSection)
Places(text, mark) == {i \in 1 .. Len(text) : text[i] = mark}
Has(text, mark) == Places(text, mark) # {}
\* every occurrence of mark a lies before every occurrence of mark b
Before(text, a, b) == \A i \in Places(text, a), j \in Places(text, b) : i < j

\* C13: for an alert object and any analysis result formatAnalysisMessage
\* returns a message: the header first, then the setup block or the no-setup
\* notice, then the indicator block if indicators are present, then the
\* recommendation if there is one, each at most once; the pending notice
\* exactly when the analysis result is absent, and then none of the others;
\* a missing field is rendered as the placeholder, never as "undefined".
C13_FormatSections ==
  LET m == fmt.message
      a == fmt.analysisResult
      marks == <<HeaderMark, SetupMark, NoSetupMark, IndicatorMark,
                 RecommendationMark, PendingMark>>
  IN fmt.called /\ fmt.alertData.t = "object" =>
       /\ ~fmt.threw
       /\ m # <<>> /\ Head(m) = HeaderMark
       /\ \A k \in 1 .. Len(marks) : Cardinality(Places(m, marks[k])) <= 1
       /\ \A k \in 1 .. Len(marks), l \in 1 .. Len(marks) :
            k < l => Before(m, marks[k], marks[l])
       /\ Has(m, SetupMark) <=> a.present /\ a.setup.present
       /\ Has(m, NoSetupMark) <=> a.present /\ ~a.setup.present
       /\ Has(m, IndicatorMark) <=> a.present /\ a.indicators.present
       /\ Has(m, RecommendationMark) <=> a.present /\ Truthy(a.recommendation)
       /\ Has(m, PendingMark) <=> ~a.present
       /\ ~Has(m, "undefined")

C13_Witness ==
  /\ fmt.called /\ fmt.alertData.t = "object"
  /\ fmt.analysisResult.present
  /\ fmt.analysisResult.setup.present /\ ~fmt.analysisResult.indicators.present
  /\ fmt.analysisResult.setup.f["entry"] = Undef
  /\ fmt.analysisResult.setup.f["stop"] # Undef
  /\ Truthy(fmt.analysisResult.recommendation)
  /\ Has(fmt.message, SetupMark) /\ Has(fmt.message, "N/A")
  /\ ~Has(fmt.message, IndicatorMark)

\* the posted texts that are valid JSON but not a JSON object
NonObjectJsonTexts ==
  {raw \in RawTexts : JSONparse(raw).ok /\ JSONparse(raw).value.t # "object"}

\* C14: a string body of POST /webhook that is valid JSON but not an object
\* is still stamped with receivedAt and acknowledged with a defined
\* timestamp, and no exception is raised before the response is sent.
C14_NonObjectJsonAcknowledged ==
  \A r \in Webhooks :
    req[r].body.kind = "string" /\ req[r].body.raw \in NonObjectJsonTexts =>
      /\ req[r].pc # "escaped"
      /\ req[r].effects # <<>> /\ Head(req[r].effects) = "ack"
      /\ req[r].response.sent /\ req[r].response.received
      /\ req[r].response.timestamp.t = "string"
      /\ Get(req[r].alertData, "receivedAt") = req[r].response.timestamp

====
